---------------------------- MODULE Spec2Model ----------------------------
(***************************************************************************)
(* A model of src/main.py: the WTT results notifier.                       *)
(*                                                                         *)
(* Python strings are modelled as sequences of one-character strings, so   *)
(* that the regular expressions, strip/split/upper/lower and the f-string  *)
(* formatting of the source are computed character by character.           *)
(***************************************************************************)
EXTENDS Integers, Sequences, FiniteSets, TLC

(***************************************************************************)
(* Characters and the str methods the source uses.                         *)
(***************************************************************************)
DigitSeq == <<"0", "1", "2", "3", "4", "5", "6", "7", "8", "9">>
UpperSeq == <<"A", "B", "C", "D", "E", "F", "G", "H", "I", "J", "K", "L", "M",
              "N", "O", "P", "Q", "R", "S", "T", "U", "V", "W", "X", "Y", "Z">>
LowerSeq == <<"a", "b", "c", "d", "e", "f", "g", "h", "i", "j", "k", "l", "m",
              "n", "o", "p", "q", "r", "s", "t", "u", "v", "w", "x", "y", "z">>

Range(f) == {f[i] : i \in DOMAIN f}

\* \d of the re module (ASCII digits)
Digits == Range(DigitSeq)
\* \s of the re module, and what str.strip() removes (the whitespace the
\* model's inputs use)
WS == {" ", "\t", "\n"}
\* the separators of r"[-:]"
Seps == {"-", ":"}
\* \w of the re module: what \b tells apart from the rest
WordChars == Range(UpperSeq) \cup Range(LowerSeq) \cup Digits \cup {"_"}

IndexIn(seq, c) == CHOOSE i \in DOMAIN seq : seq[i] = c

LowerChar(c) == IF c \in Range(UpperSeq) THEN LowerSeq[IndexIn(UpperSeq, c)] ELSE c
UpperChar(c) == IF c \in Range(LowerSeq) THEN UpperSeq[IndexIn(LowerSeq, c)] ELSE c

\* str.lower()
Lower(s) == [i \in 1..Len(s) |-> LowerChar(s[i])]
\* str.upper()
Upper(s) == [i \in 1..Len(s) |-> UpperChar(s[i])]

\* the first index j >= i of s whose character is not in set (Len(s)+1 if none):
\* where a greedy X* or X+ of the re module stops
RECURSIVE SkipSet(_, _, _)
SkipSet(s, i, set) ==
    IF i <= Len(s) /\ s[i] \in set THEN SkipSet(s, i + 1, set) ELSE i

\* the last index j <= i of s whose character is not in set (0 if none)
RECURSIVE SkipSetBack(_, _, _)
SkipSetBack(s, i, set) ==
    IF i >= 1 /\ s[i] \in set THEN SkipSetBack(s, i - 1, set) ELSE i

\* str.strip()
Strip(s) ==
    LET a == SkipSet(s, 1, WS)
        b == SkipSetBack(s, Len(s), WS)
    IN  IF a > b THEN <<>> ELSE SubSeq(s, a, b)

\* str.split(c) for a one-character separator
RECURSIVE SplitChar(_, _)
SplitChar(s, c) ==
    LET j == SkipSet(s, 1, Range(s) \ {c})
    IN  IF j > Len(s) THEN <<s>>
        ELSE <<SubSeq(s, 1, j - 1)>> \o SplitChar(SubSeq(s, j + 1, Len(s)), c)

\* sep.join(parts)
RECURSIVE Join(_, _)
Join(parts, sep) ==
    IF parts = <<>> THEN <<>>
    ELSE IF Len(parts) = 1 THEN parts[1]
    ELSE parts[1] \o sep \o Join(Tail(parts), sep)

\* int(s) of a string of digits
RECURSIVE IntOf(_)
IntOf(ds) ==
    IF ds = <<>> THEN 0
    ELSE 10 * IntOf(SubSeq(ds, 1, Len(ds) - 1)) + (IndexIn(DigitSeq, ds[Len(ds)]) - 1)

\* every sequence over alphabet of length at most n
SeqsUpTo(alphabet, n) == UNION {[1..k -> alphabet] : k \in 0..n}

(***************************************************************************)
(* The score patterns.                                                     *)
(***************************************************************************)
\* re.match(r"\s*(\d+)\s*[-:]\s*(\d+)\s*$", s): ok, and the two groups
ScoreMatch(s) ==
    LET i1 == SkipSet(s, 1, WS)
        i2 == SkipSet(s, i1, Digits)
        i3 == SkipSet(s, i2, WS)
        i4 == SkipSet(s, i3 + 1, WS)
        i5 == SkipSet(s, i4, Digits)
        i6 == SkipSet(s, i5, WS)
        ok == /\ i2 > i1
              /\ i3 <= Len(s)
              /\ s[i3] \in Seps
              /\ i5 > i4
              /\ i6 = Len(s) + 1
    IN  [ok |-> ok,
         g1 |-> IF ok THEN SubSeq(s, i1, i2 - 1) ELSE <<>>,
         g2 |-> IF ok THEN SubSeq(s, i4, i5 - 1) ELSE <<>>]

\* re.match(r"(\d+)\s*[-:]\s*(\d+)$", p): no leading or trailing whitespace
TokenMatch(p) ==
    LET m == ScoreMatch(p)
    IN  IF m.ok /\ p[1] \in Digits /\ p[Len(p)] \in Digits
        THEN m ELSE [ok |-> FALSE, g1 |-> <<>>, g2 |-> <<>>]

\* a flip that writes the two numbers back in the order it read them
flip_overall_Unswapped(s) ==
    LET m == ScoreMatch(s)
    IN  IF m.ok THEN m.g1 \o <<"-">> \o m.g2 ELSE s

\* flip_overall(s)
flip_overall(s) ==
    LET m == ScoreMatch(s)
    IN  IF m.ok THEN m.g2 \o <<"-">> \o m.g1 ELSE s

\* [p.strip() for p in gs.split(",") if p.strip()]
GameParts(gs) ==
    LET raw == SplitChar(gs, ",")
    IN  SelectSeq([i \in 1..Len(raw) |-> Strip(raw[i])], LAMBDA p : p # <<>>)

\* flip_games(gs)
flip_games(gs) ==
    LET parts == GameParts(gs)
        flipped == [i \in 1..Len(parts) |->
                      LET m == TokenMatch(parts[i])
                      IN  IF m.ok THEN m.g2 \o <<"-">> \o m.g1 ELSE parts[i]]
    IN  Join(flipped, <<",">>)

(***************************************************************************)
(* The round parser.                                                       *)
(***************************************************************************)
Semifinal    == <<"S", "e", "m", "i", "f", "i", "n", "a", "l">>
Quarterfinal == <<"Q", "u", "a", "r", "t", "e", "r", "f", "i", "n", "a", "l">>
Final        == <<"F", "i", "n", "a", "l">>
NoRound      == <<>>

\* ROUND_LABELS, applied to the group that r"\b(QF|SF|F)\b" captured
ROUND_LABELS(tok) ==
    CASE tok = <<"Q", "F">> -> Quarterfinal
      [] tok = <<"S", "F">> -> Semifinal
      [] tok = <<"F">>      -> Final
      [] OTHER              -> tok

IsWordAt(s, i) == i >= 1 /\ i <= Len(s) /\ s[i] \in WordChars

\* \b between the characters i-1 and i of s
WordB(s, i) == IsWordAt(s, i - 1) # IsWordAt(s, i)

\* the literal lit stands at index i of s
LitAt(s, i, lit) ==
    /\ i + Len(lit) - 1 <= Len(s)
    /\ \A j \in 1..Len(lit) : s[i + j - 1] = lit[j]

\* r"\b<stem>[-\s]?finals?\b" matches at index i (stem is semi or quarter)
StemFinalAt(s, i, stem) ==
    /\ WordB(s, i)
    /\ LitAt(s, i, stem)
    /\ \E a \in {0, 1} :
         LET f == i + Len(stem) + a
         IN  /\ a = 1 => (f - 1 <= Len(s) /\ s[f - 1] \in ({"-"} \cup WS))
             /\ LitAt(s, f, <<"f", "i", "n", "a", "l">>)
             /\ \E b \in {0, 1} :
                  /\ b = 1 => (f + 5 <= Len(s) /\ s[f + 5] = "s")
                  /\ WordB(s, f + 5 + b)

\* re.search(r"\bsemi[-\s]?finals?\b", tl)
HasSemi(tl) == \E i \in 1..Len(tl) : StemFinalAt(tl, i, <<"s", "e", "m", "i">>)

\* re.search(r"\bquarter[-\s]?finals?\b", tl)
HasQuarter(tl) ==
    \E i \in 1..Len(tl) : StemFinalAt(tl, i, <<"q", "u", "a", "r", "t", "e", "r">>)

\* re.search(r"\bfinal\b", tl)
HasFinal(tl) ==
    \E i \in 1..Len(tl) :
        /\ WordB(tl, i)
        /\ LitAt(tl, i, <<"f", "i", "n", "a", "l">>)
        /\ WordB(tl, i + 5)

\* r"(\d{1,3})\b" at index j of s: the group, or <<>> when it does not match
DigitGroupAt(s, j) ==
    LET e == SkipSet(s, j, Digits)
    IN  IF e - j >= 1 /\ e - j <= 3 /\ WordB(s, e) THEN SubSeq(s, j, e - 1) ELSE <<>>

\* r"\bround\s+of\s+(\d{1,3})\b" at index i of tl: the group, or <<>>
RoundOfAt(tl, i) ==
    LET j1 == i + 5
        j2 == SkipSet(tl, j1, WS)
        j3 == j2 + 2
        j4 == SkipSet(tl, j3, WS)
    IN  IF /\ WordB(tl, i)
           /\ LitAt(tl, i, <<"r", "o", "u", "n", "d">>)
           /\ j2 > j1
           /\ LitAt(tl, j2, <<"o", "f">>)
           /\ j4 > j3
        THEN DigitGroupAt(tl, j4) ELSE <<>>

\* r"\bR\s*(\d{1,3})\b" with re.I at index i of t: the group, or <<>>
RTokenAt(t, i) ==
    IF WordB(t, i) /\ i <= Len(t) /\ t[i] \in {"R", "r"}
    THEN DigitGroupAt(t, SkipSet(t, i + 1, WS)) ELSE <<>>

\* r"\b(QF|SF|F)\b" at index i of tu: the group, or <<>>
BareAt(tu, i) ==
    IF ~WordB(tu, i) THEN <<>>
    ELSE IF LitAt(tu, i, <<"Q", "F">>) /\ WordB(tu, i + 2) THEN <<"Q", "F">>
    ELSE IF LitAt(tu, i, <<"S", "F">>) /\ WordB(tu, i + 2) THEN <<"S", "F">>
    ELSE IF LitAt(tu, i, <<"F">>) /\ WordB(tu, i + 1) THEN <<"F">>
    ELSE <<>>

\* re.search: the leftmost of the indexes a pattern matches at
Leftmost(hits) == CHOOSE i \in hits : \A j \in hits : i <= j

\* m.group(1) of re.search(r"\bround\s+of\s+(\d{1,3})\b", tl), <<>> without a match
RoundOfGroup(tl) ==
    LET hits == {i \in 1..Len(tl) : RoundOfAt(tl, i) # <<>>}
    IN  IF hits = {} THEN <<>> ELSE RoundOfAt(tl, Leftmost(hits))

\* m.group(1) of re.search(r"\bR\s*(\d{1,3})\b", t, flags=re.I), <<>> without a match
RTokenGroup(t) ==
    LET hits == {i \in 1..Len(t) : RTokenAt(t, i) # <<>>}
    IN  IF hits = {} THEN <<>> ELSE RTokenAt(t, Leftmost(hits))

\* m.group(1) of re.search(r"\b(QF|SF|F)\b", tu), <<>> without a match
BareGroup(tu) ==
    LET hits == {i \in 1..Len(tu) : BareAt(tu, i) # <<>>}
    IN  IF hits = {} THEN <<>> ELSE BareAt(tu, Leftmost(hits))

\* a classifier that looks for "round of N" before the named rounds
pretty_round_RoundOfFirst(desc) ==
    IF desc = <<>> THEN NoRound
    ELSE LET t  == Strip(desc)
             tl == Lower(t)
         IN  IF RoundOfGroup(tl) # <<>>
             THEN <<"R">> \o RoundOfGroup(tl)
             ELSE IF HasSemi(tl) THEN Semifinal
             ELSE IF HasQuarter(tl) THEN Quarterfinal
             ELSE IF HasFinal(tl) THEN Final
             ELSE IF RTokenGroup(t) # <<>>
                  THEN <<"R">> \o RTokenGroup(t)
             ELSE IF BareGroup(Upper(t)) # <<>>
                  THEN ROUND_LABELS(BareGroup(Upper(t)))
             ELSE NoRound

\* pretty_round(desc)
pretty_round(desc) ==
    IF desc = <<>> THEN NoRound
    ELSE LET t  == Strip(desc)
             tl == Lower(t)
         IN  IF HasSemi(tl) THEN Semifinal
             ELSE IF HasQuarter(tl) THEN Quarterfinal
             ELSE IF HasFinal(tl) THEN Final
             ELSE IF RoundOfGroup(tl) # <<>>
                  THEN <<"R">> \o RoundOfGroup(tl)
             ELSE IF RTokenGroup(t) # <<>>
                  THEN <<"R">> \o RTokenGroup(t)
             ELSE IF BareGroup(Upper(t)) # <<>>
                  THEN ROUND_LABELS(BareGroup(Upper(t)))
             ELSE NoRound

(***************************************************************************)
(* The nation test.                                                        *)
(***************************************************************************)
\* the delimiters of r"[/\s,-]+"
NationDelims == {"/", ",", "-"} \cup WS

\* re.split(r"[/\s,-]+", s)
RECURSIVE SplitRuns(_, _)
SplitRuns(s, delims) ==
    LET j == SkipSet(s, 1, Range(s) \ delims)
    IN  IF j > Len(s) THEN <<s>>
        ELSE <<SubSeq(s, 1, j - 1)>>
             \o SplitRuns(SubSeq(s, SkipSet(s, j, delims), Len(s)), delims)

\* a nation test that looks for IND anywhere in the field, not as a token
_has_ind_Substring(org) ==
    \E i \in 1..Len(org) : LitAt(Upper(org), i, <<"I", "N", "D">>)

\* _has_ind(org)
_has_ind(org) ==
    IF org = <<>> THEN FALSE
    ELSE <<"I", "N", "D">> \in Range(SplitRuns(Upper(Strip(org)), NationDelims))

(***************************************************************************)
(* JSON values as the parser sees them.  A scalar is a record [k, s]: k is *)
(* "absent" (the key is missing), "null", "str" (s its characters) or      *)
(* "num" (s its digits).                                                   *)
(***************************************************************************)
V(k, s) == [k |-> k, s |-> s]
Absent  == V("absent", <<>>)
Null    == V("null", <<>>)
Str(s)  == V("str", s)
Num(ds) == V("num", ds)
EmptyStr == Str(<<>>)

\* Python truthiness of a scalar
Truthy(v) ==
    \/ v.k = "str" /\ v.s # <<>>
    \/ v.k = "num" /\ IntOf(v.s) # 0

\* d.get(key)
Get(v) == IF v.k = "absent" THEN Null ELSE v
\* d.get(key, default)
GetOr(v, default) == IF v.k = "absent" THEN default ELSE v
\* a or b
Or(a, b) == IF Truthy(a) THEN a ELSE b

\* str(v), as an f-string formats it
PyStr(v) == IF v.k = "null" THEN <<"N", "o", "n", "e">> ELSE v.s

\* a competitor entry: k is "obj" for a JSON object, else the kind of the
\* non-object value that stands in its place
Competitor(k, type, name, org) ==
    [k |-> k, competitorType |-> type, competitiorName |-> name, competitiorOrg |-> org]

\* the value under "competitiors": k is "absent", "null", "list" (l its
\* elements), or "str"/"num" for a non-list value (s its text)
CompList(l) == [k |-> "list", l |-> l, s |-> <<>>]
CompOther(k, s) == [k |-> k, l |-> <<>>, s |-> s]

\* the value under "match_card": k is "obj", "absent", "null", or "str"/"num"
\* for a non-object value (s its text)
MatchCard(k, s, name, desc, comps, rgs, gs, ros, os) ==
    [k |-> k, s |-> s, subEventName |-> name, subEventDescription |-> desc,
     competitiors |-> comps, resultsGameScores |-> rgs, gameScores |-> gs,
     resultOverallScores |-> ros, overallScores |-> os]

\* {}: what "it.get('match_card') or {}" falls back to
EmptyCard ==
    MatchCard("obj", <<>>, Absent, Absent, CompOther("absent", <<>>),
              Absent, Absent, Absent, Absent)

\* one element of the match list: k is "obj", or the kind of a non-object
Entry(k, mc, subEventType) == [k |-> k, match_card |-> mc, subEventType |-> subEventType]

\* the payload: k is "list" (items its elements), "obj" (mk the kind of its
\* "matches" value: "absent", "list" or "null"; items that list), or the kind
\* of any other JSON value
Payload(k, mk, items) == [k |-> k, mk |-> mk, items |-> items]

(***************************************************************************)
(* parse_matches.  A result is [raised, out]: raised when the call ends in *)
(* an exception (AttributeError, TypeError) instead of returning out.      *)
(***************************************************************************)
\* home = {} / away = {}
NoSide == [present |-> FALSE, name |-> EmptyStr, org |-> <<>>]

\* "it.get('match_card') or {}" is something mc.get(...) can be called on
CardUsable(mc) ==
    \/ mc.k \in {"obj", "absent", "null"}
    \/ mc.k \in {"str", "num"} /\ ~Truthy(V(mc.k, mc.s))

\* it.get("match_card") or {}
CardOf(it) == IF it.match_card.k = "obj" THEN it.match_card ELSE EmptyCard

\* "mc.get('competitiors') or []" can be iterated and each c has c.get
CompsUsable(cs) ==
    \/ cs.k \in {"absent", "null"}
    \/ cs.k \in {"str", "num"} /\ ~Truthy(V(cs.k, cs.s))
    \/ cs.k = "list"

\* the loop over the competitors (lines 229-233): the sides after the
\* first n competitors, and whether an exception ended the loop
RECURSIVE SidesAfter(_, _)
SidesAfter(l, n) ==
    IF n = 0 THEN [raised |-> FALSE, home |-> NoSide, away |-> NoSide]
    ELSE LET prev == SidesAfter(l, n - 1)
             c    == l[n]
             type == Get(c.competitorType)
             org  == Or(Get(c.competitiorOrg), EmptyStr)
             side == [present |-> TRUE,
                      name |-> GetOr(c.competitiorName, EmptyStr),
                      org |-> Strip(org.s)]
         IN  IF prev.raised THEN prev
             ELSE IF c.k # "obj" THEN [prev EXCEPT !.raised = TRUE]
             ELSE IF type = Str(<<"H">>)
                  THEN IF org.k # "str" THEN [prev EXCEPT !.raised = TRUE]
                       ELSE [prev EXCEPT !.home = side]
             ELSE IF type = Str(<<"A">>)
                  THEN IF org.k # "str" THEN [prev EXCEPT !.raised = TRUE]
                       ELSE [prev EXCEPT !.away = side]
             ELSE prev

\* lines 241-245: the winner, from the overall score and the two names
WinnerOf(overall, h_name, a_name) ==
    LET m2 == ScoreMatch(overall)
    IN  IF overall # <<>> /\ m2.ok
        THEN IF IntOf(m2.g1) > IntOf(m2.g2) THEN h_name
             ELSE IF IntOf(m2.g2) > IntOf(m2.g1) THEN a_name
             ELSE EmptyStr
        ELSE EmptyStr

\* the body of the loop of parse_matches (lines 223-255) for one entry
ParseEntry(it) ==
    LET mc      == CardOf(it)
        sub     == Or(Or(Get(mc.subEventName), Get(it.subEventType)), EmptyStr)
        desc    == Or(Get(mc.subEventDescription), EmptyStr)
        cs      == mc.competitiors
        sides   == IF cs.k = "list" THEN SidesAfter(cs.l, Len(cs.l))
                   ELSE SidesAfter(<<>>, 0)
        games   == Or(Or(Get(mc.resultsGameScores), Get(mc.gameScores)), EmptyStr)
        overall == Or(Or(Get(mc.resultOverallScores), Get(mc.overallScores)), EmptyStr)
        raised  == \/ it.k # "obj"
                   \/ ~CardUsable(it.match_card)
                   \/ desc.k # "str"
                   \/ ~CompsUsable(cs)
                   \/ sides.raised
                   \/ overall.k # "str"
    IN  IF raised THEN [raised |-> TRUE, rec |-> <<>>]
        ELSE [raised |-> FALSE,
              rec |-> [SubEventName |-> sub,
                       Round        |-> pretty_round(desc.s),
                       Comp1        |-> sides.home.name,
                       Comp1_Nation |-> sides.home.org,
                       Comp2        |-> sides.away.name,
                       Comp2_Nation |-> sides.away.org,
                       Match_Score  |-> overall.s,
                       Games_Score  |-> games,
                       Winner       |-> WinnerOf(overall.s, sides.home.name,
                                                 sides.away.name)]]

\* line 219: the match list of a payload, and whether iterating it raises
ItemsOf(payload) ==
    IF payload.k = "list" THEN [raised |-> FALSE, items |-> payload.items]
    ELSE IF payload.k = "obj"
         THEN IF payload.mk = "list" THEN [raised |-> FALSE, items |-> payload.items]
              ELSE IF payload.mk = "absent" THEN [raised |-> FALSE, items |-> <<>>]
              ELSE [raised |-> TRUE, items |-> <<>>]
    ELSE [raised |-> FALSE, items |-> <<>>]

\* parse_matches(payload)
parse_matches(payload) ==
    LET its    == ItemsOf(payload)
        parsed == [i \in 1..Len(its.items) |-> ParseEntry(its.items[i])]
    IN  IF its.raised \/ \E i \in 1..Len(parsed) : parsed[i].raised
        THEN [raised |-> TRUE, out |-> <<>>]
        ELSE [raised |-> FALSE, out |-> [i \in 1..Len(parsed) |-> parsed[i].rec]]

(***************************************************************************)
(* The header and the block of one event.                                  *)
(***************************************************************************)
\* str.rstrip()
RStrip(s) == SubSeq(s, 1, SkipSetBack(s, Len(s), WS))

\* build_header_strict(eid, event_idx): [raised, text]
build_header_strict(eid, event_idx) ==
    IF eid \notin DOMAIN event_idx THEN [raised |-> TRUE, text |-> <<>>]
    ELSE LET etyp  == Strip(event_idx[eid].EventType)
             ctry  == Strip(event_idx[eid].Country)
             parts == SelectSeq(<<etyp, ctry>>, LAMBDA x : x # <<>>)
         IN  IF parts = <<>> THEN [raised |-> TRUE, text |-> <<>>]
             ELSE [raised |-> FALSE,
                   text |-> <<"*">> \o Join(parts, <<" ", "|", " ">>) \o <<"*">>]

NoMatchesNotice ==
    <<"(", "N", "o", " ", "I", "n", "d", "i", "a", "n", " ", "m", "a", "t", "c",
      "h", "e", "s", " ", "f", "o", "u", "n", "d", ")">>

\* lines 281-284: the matches with IND on either side, in payload order
IndiaMatches(matches) ==
    SelectSeq(matches,
              LAMBDA m : _has_ind(m.Comp1_Nation) \/ _has_ind(m.Comp2_Nation))

\* lines 313-321: which branch a match takes
VerbOf(m) ==
    LET ind1     == _has_ind(m.Comp1_Nation)
        comp_ind == IF ind1 THEN m.Comp1 ELSE m.Comp2
        opp      == IF ind1 THEN m.Comp2 ELSE m.Comp1
    IN  IF m.Winner = comp_ind THEN "defeated"
        ELSE IF m.Winner = opp THEN "lost to"
        ELSE "vs"

\* lines 315, 318, 321: the overall score a match is shown with
ShownOverall(m) ==
    IF VerbOf(m) = "lost to" THEN flip_overall(m.Match_Score) ELSE m.Match_Score

\* lines 315, 318, 321: the per-game scores a match is shown with (their text;
\* when flip_games is handed a number, its .split raises)
ShownGames(m) ==
    IF VerbOf(m) = "lost to"
    THEN IF Truthy(m.Games_Score) /\ m.Games_Score.k # "str"
         THEN [raised |-> TRUE, text |-> <<>>]
         ELSE [raised |-> FALSE, text |-> flip_games(Or(m.Games_Score, EmptyStr).s)]
    ELSE [raised |-> FALSE, text |-> PyStr(m.Games_Score)]

\* lines 304-323: the two lines of one match, and the parts line 323 joins
Row(m) ==
    LET ind1     == _has_ind(m.Comp1_Nation)
        comp_ind == IF ind1 THEN m.Comp1 ELSE m.Comp2
        opp      == IF ind1 THEN m.Comp2 ELSE m.Comp1
        opp_nat  == IF ind1 THEN m.Comp2_Nation ELSE m.Comp1_Nation
        opp_with == IF Truthy(opp) THEN PyStr(opp) \o <<" ", "(">> \o opp_nat \o <<")">>
                    ELSE <<"(">> \o opp_nat \o <<")">>
        verb     == VerbOf(m)
        phr      == CASE verb = "defeated" ->
                           <<"d", "e", "f", "e", "a", "t", "e", "d", " ">>
                           \o opp_with \o <<" ", "b", "y">>
                      [] verb = "lost to" ->
                           <<"l", "o", "s", "t", " ", "t", "o", " ">>
                           \o opp_with \o <<" ", "b", "y">>
                      [] OTHER -> <<"v", "s", " ">> \o opp_with
        overall  == ShownOverall(m)
        games    == ShownGames(m)
    IN  [raised   |-> games.raised,
         home     |-> ind1,
         comp_ind |-> comp_ind,
         verb     |-> verb,
         overall  |-> overall,
         games    |-> games.text,
         line2    |-> Strip(PyStr(m.SubEventName) \o <<" ">> \o m.Round),
         line3    |-> PyStr(comp_ind) \o <<" ">> \o phr \o <<" ", "(">> \o overall
                      \o <<")", " ", "(">> \o games.text \o <<")">>]

\* lines 302-324: the lines the matches add to the block
MatchLines(rows) ==
    [i \in 1..(3 * Len(rows)) |->
       CASE i % 3 = 1 -> rows[(i + 2) \div 3].line2
         [] i % 3 = 2 -> rows[(i + 1) \div 3].line3
         [] OTHER     -> <<>>]

\* lines 302-323: the row of each match
RowsOf(india) == [i \in 1..Len(india) |-> Row(india[i])]

\* lines 279-326, from the header, the matches kept and their rows
BlockFrom(hdr, india, rows) ==
    IF \E i \in 1..Len(rows) : rows[i].raised
    THEN [raised |-> TRUE, text |-> <<>>, india |-> <<>>, rows |-> <<>>]
    ELSE [raised |-> FALSE,
          text   |-> IF india = <<>>
                     THEN Join(<<hdr, NoMatchesNotice>>, <<"\n">>)
                     ELSE RStrip(Join(<<hdr>> \o MatchLines(rows), <<"\n">>)),
          india  |-> india,
          rows   |-> rows]

\* lines 279-326 of build_india_block, from the header and the parsed
\* matches: [raised, text, india, rows]
BlockOf(hdr, matches) ==
    CHOOSE b \in UNION {{BlockFrom(hdr, india, rows) : rows \in {RowsOf(india)}} :
                           india \in {IndiaMatches(matches)}} : TRUE

(***************************************************************************)
(* Event discovery and the report.                                         *)
(***************************************************************************)
\* TAKE_TRY
TAKE_TRY == <<200, 100, 50, 20, 10>>

\* the width of the divider line, "-" * 60
DividerWidth == 60
Divider == [i \in 1..DividerWidth |-> "-"]

\* "".join(ch for ch in part.strip() if ch.isdigit())
DigitsOf(part) == SelectSeq(Strip(part), LAMBDA ch : ch \in Digits)

\* lines 148-154: the ids of the parts, empty ones and repeats dropped
RECURSIVE IdsAfter(_, _)
IdsAfter(parts, n) ==
    IF n = 0 THEN <<>>
    ELSE LET ids == IdsAfter(parts, n - 1)
             eid == DigitsOf(parts[n])
         IN  IF eid # <<>> /\ eid \notin Range(ids) THEN Append(ids, eid) ELSE ids

\* get_latest_completed_event_ids(), from the "value" of the response
EventIdsOf(raw) ==
    LET parts == SplitChar(Strip(raw), ",")
    IN  IdsAfter(parts, Len(parts))

\* "\n".join(blocks).strip()
MessageOf(blocks) == Strip(Join(blocks, <<"\n">>))

(***************************************************************************)
(* Bounds and the inputs drawn within them.                                *)
(***************************************************************************)
\* the most comma-separated parts of a discovery value
MaxParts == 2

\* the parts a discovery value is made of: three ids, a repeat, and noise
RawTokens ==
    {<<"1", "0", "1">>, <<"1", "0", "2">>, <<"1", "0", "3">>, <<" ", "1", "0", "1">>, <<"x">>}
RawValues == {Join(ps, <<",">>) : ps \in SeqsUpTo(RawTokens, MaxParts)}

\* the rows load_event_idx_strict can return for an event id
GoodRow  == [EventType |-> <<"W", "T", "T">>, Country |-> <<"Q", "A", "T">>]
BlankRow == [EventType |-> <<>>, Country |-> <<" ">>]
KnownEids == {<<"1", "0", "1">>, <<"1", "0", "2">>, <<"1", "0", "3">>}
\* its possible results: non-empty mappings from event id to row
EventIdxChoices ==
    UNION {[D -> {GoodRow, BlankRow}] : D \in (SUBSET KnownEids) \ {{}}}

\* the payloads the backend answers with in a run of main
SideH(name, org) == Competitor("obj", Str(<<"H">>), Str(name), Str(org))
SideA(name, org) == Competitor("obj", Str(<<"A">>), Str(name), Str(org))
CardWith(comps, overall, games) ==
    MatchCard("obj", <<>>, Str(<<"M", "S">>), Str(<<"S", "F">>), CompList(comps),
              games, Absent, overall, Absent)
ListOf(items) == Payload("list", "absent", items)
IndiaWinPayload ==
    ListOf(<<Entry("obj",
                   CardWith(<<SideH(<<"A">>, <<"I", "N", "D">>),
                              SideA(<<"B">>, <<"F", "R", "A">>)>>,
                            Str(<<"3", "-", "1">>),
                            Str(<<"1", "1", "-", "9">>)),
                   Absent)>>)
NoIndiaPayload ==
    ListOf(<<Entry("obj",
                   CardWith(<<SideH(<<"A">>, <<"C", "H", "N">>),
                              SideA(<<"B">>, <<"F", "R", "A">>)>>,
                            Str(<<"3", "-", "1">>), Absent),
                   Absent)>>)
BrokenPayload == ListOf(<<Entry("str", EmptyCard, Absent)>>)
MainPayloads == {IndiaWinPayload, NoIndiaPayload, BrokenPayload,
                 Payload("null", "absent", <<>>)}

(***************************************************************************)
(* The program's state.                                                    *)
(***************************************************************************)
VARIABLES
    pc,          \* where main stands
    event_idx,   \* the Excel mapping, once loaded
    eids,        \* the discovered event ids
    cur,         \* the index in eids of the event being built
    header,      \* the header of the event being built
    tier,        \* get_payload_static_or_live: "static" or "live"
    take,        \* get_payload_static_or_live: the index in TAKE_TRY
    requests,    \* the requests the current call of the resolver has issued
    lastOutcome, \* how the resolver's last request ended
    resolved,    \* how the current call of the resolver ended, if it has
    payload,     \* the payload the resolver returned
    matches,     \* what parse_matches made of it
    fetched,     \* the event ids the resolver was called for, in order
    blocks,      \* main's blocks
    built,       \* the event ids whose block was appended, in order
    created,     \* the bodies handed to client.messages.create
    sendOutcome, \* how send_whatsapp ended
    exit,        \* how the process ended: [kind, code]
    b_in,        \* block development: the payload given
    b_parsed,    \* block development: parse_matches of it
    b_block,     \* block development: the block built from it
    b_pc,        \* block development: the step reached
    f_in,        \* flip development: the score string given
    f_out,       \* flip development: the successive flips of it
    r_desc,      \* round development: the description given
    r_out        \* round development: pretty_round of it

mainVars == <<pc, event_idx, eids, cur, header, tier, take, requests, lastOutcome, resolved,
              payload, matches, fetched, blocks, built, created, sendOutcome, exit>>
blockVars == <<b_in, b_parsed, b_block, b_pc>>
flipVars == <<f_in, f_out>>
roundVars == <<r_desc, r_out>>
vars == <<mainVars, blockVars, flipVars, roundVars>>
nonMain == <<blockVars, flipVars, roundVars>>

NotLoaded == <<>>
NoPayload == Payload("none", "absent", <<>>)
Running == [kind |-> "running", code |-> -1]
\* sys.exit(n)
SysExit(n) == [kind |-> "sys.exit", code |-> n]
\* main returns: the interpreter exits with status 0
Returned == [kind |-> "return", code |-> 0]
\* an exception nothing catches: traceback, status 1
Uncaught == [kind |-> "uncaught", code |-> 1]

MainIdle ==
    /\ pc = "idle" /\ event_idx = NotLoaded /\ eids = <<>> /\ cur = 0
    /\ header = <<>> /\ tier = "static" /\ take = 1 /\ requests = <<>>
    /\ lastOutcome = "none" /\ resolved = "pending" /\ payload = NoPayload /\ matches = <<>>
    /\ fetched = <<>>
    /\ blocks = <<>> /\ built = <<>> /\ created = <<>> /\ sendOutcome = "none"
    /\ exit = Running
BlockIdle == b_in = NoPayload /\ b_parsed = <<>> /\ b_block = <<>> /\ b_pc = "idle"
FlipIdle == f_in = <<>> /\ f_out = <<>>
RoundIdle == r_desc = <<>> /\ r_out = <<>>

(***************************************************************************)
(* main, step by step.                                                     *)
(***************************************************************************)
MainInit ==
    /\ pc = "load" /\ event_idx = NotLoaded /\ eids = <<>> /\ cur = 0
    /\ header = <<>> /\ tier = "static" /\ take = 1 /\ requests = <<>>
    /\ lastOutcome = "none" /\ resolved = "pending" /\ payload = NoPayload /\ matches = <<>>
    /\ fetched = <<>>
    /\ blocks = <<>> /\ built = <<>> /\ created = <<>> /\ sendOutcome = "none"
    /\ exit = Running

Init == MainInit /\ BlockIdle /\ FlipIdle /\ RoundIdle

\* the process ends
Stop(how) == pc' = "done" /\ exit' = how

\* lines 336-340: load_event_idx_strict returns a mapping
LoadOk ==
    /\ pc = "load"
    /\ UNCHANGED nonMain
    /\ \E idx \in EventIdxChoices : event_idx' = idx
    /\ pc' = "discover"
    /\ UNCHANGED <<eids, cur, header, tier, take, requests, lastOutcome, resolved, payload,
                   matches, fetched, blocks, built, created, sendOutcome, exit>>

\* lines 336-340: load_event_idx_strict raises
LoadFails ==
    /\ pc = "load"
    /\ UNCHANGED nonMain
    /\ Stop(SysExit(2))
    /\ UNCHANGED <<event_idx, eids, cur, header, tier, take, requests, lastOutcome, resolved,
                   payload, matches, fetched, blocks, built, created, sendOutcome>>

\* a main that reports ids missing from the mapping with the code of a
\* failed block
AfterDiscovery_SameCode(ids) ==
    IF ids = <<>> THEN Stop(SysExit(0)) /\ cur' = cur
    ELSE IF \E i \in 1..Len(ids) : ids[i] \notin DOMAIN event_idx
         THEN Stop(SysExit(4)) /\ cur' = cur
    ELSE pc' = "header" /\ cur' = 1 /\ exit' = exit

\* lines 343-351, once the ids are known
AfterDiscovery(ids) ==
    IF ids = <<>> THEN Stop(SysExit(0)) /\ cur' = cur
    ELSE IF \E i \in 1..Len(ids) : ids[i] \notin DOMAIN event_idx
         THEN Stop(SysExit(3)) /\ cur' = cur
    ELSE pc' = "header" /\ cur' = 1 /\ exit' = exit

\* lines 342-353: get_latest_completed_event_ids returns
Discover ==
    /\ pc = "discover"
    /\ UNCHANGED nonMain
    /\ \E raw \in RawValues :
         /\ eids' = EventIdsOf(raw)
         /\ AfterDiscovery(EventIdsOf(raw))
    /\ UNCHANGED <<event_idx, header, tier, take, requests, lastOutcome, resolved, payload,
                   matches, fetched, blocks, built, created, sendOutcome>>

\* line 342: get_latest_completed_event_ids raises, and nothing catches it
DiscoverFails ==
    /\ pc = "discover"
    /\ UNCHANGED nonMain
    /\ Stop(Uncaught)
    /\ UNCHANGED <<event_idx, eids, cur, header, tier, take, requests, lastOutcome, resolved,
                   payload, matches, fetched, blocks, built, created, sendOutcome>>

\* lines 354-359 and 275-276: the header of the next event; with it the
\* resolver is entered, else the ValueError ends the run
BeginBlock ==
    /\ pc = "header"
    /\ UNCHANGED nonMain
    /\ \E h \in {build_header_strict(eids[cur], event_idx)} :
           IF h.raised
           THEN /\ Stop(SysExit(4))
                /\ UNCHANGED <<header, fetched, tier, take, requests, lastOutcome,
                               resolved>>
           ELSE /\ header' = h.text
                /\ fetched' = Append(fetched, eids[cur])
                /\ tier' = "static" /\ take' = 1
                /\ requests' = <<>> /\ lastOutcome' = "none" /\ resolved' = "pending"
                /\ pc' = "resolve"
                /\ exit' = exit
    /\ UNCHANGED <<event_idx, eids, cur, payload, matches, blocks, built, created,
                   sendOutcome>>

\* the request the resolver issues next
Request == [eid |-> eids[cur], tier |-> tier, take |-> TAKE_TRY[take]]

\* a resolver that tries the live API for a page size right after its static
\* snapshot failed, instead of finishing the static tier first
AfterFailure_Interleaved ==
    IF tier = "static"
    THEN take' = take /\ tier' = "live" /\ UNCHANGED <<pc, exit, resolved>>
    ELSE IF take < Len(TAKE_TRY)
    THEN take' = take + 1 /\ tier' = "static" /\ UNCHANGED <<pc, exit, resolved>>
    ELSE take' = take /\ tier' = tier /\ resolved' = "no_payload" /\ Stop(SysExit(4))

\* lines 165, 173 and 185: after a failed request the loops go on to the next
\* page size, then to the live tier; past the last, line 185 raises and line
\* 357 of main catches it
AfterFailure ==
    IF take < Len(TAKE_TRY)
    THEN take' = take + 1 /\ tier' = tier /\ UNCHANGED <<pc, exit, resolved>>
    ELSE IF tier = "static"
    THEN take' = 1 /\ tier' = "live" /\ UNCHANGED <<pc, exit, resolved>>
    ELSE take' = take /\ tier' = tier /\ resolved' = "no_payload" /\ Stop(SysExit(4))

\* a static tier that lets an HTTP status other than 404 escape its handler
AfterStaticFailure_Reraise(how) ==
    CASE how = "404"  -> AfterFailure
      [] how = "http" -> take' = take /\ tier' = tier /\ resolved' = "no_payload"
                         /\ Stop(SysExit(4))
      [] OTHER        -> AfterFailure

\* lines 168-172: the three handlers of a failed static request: a 404
\* continues, another HTTP status leaves the handler and the loop goes on,
\* any other exception continues
AfterStaticFailure(how) ==
    CASE how = "404"  -> AfterFailure
      [] how = "http" -> AfterFailure
      [] OTHER        -> AfterFailure

\* lines 183-184: the handler of a failed live request
AfterLiveFailure(how) == AfterFailure

\* lines 166-167 and 175-182: a request succeeds and its JSON is returned
FetchOk ==
    /\ pc = "resolve"
    /\ UNCHANGED nonMain
    /\ requests' = Append(requests, Request)
    /\ lastOutcome' = "ok"
    /\ resolved' = "payload"
    /\ \E pl \in MainPayloads : payload' = pl
    /\ pc' = "parse"
    /\ UNCHANGED <<event_idx, eids, cur, header, tier, take, matches, fetched, blocks,
                   built, created, sendOutcome, exit>>

\* lines 166-172: a static request fails: 404, another HTTP status, or any
\* other exception (a transport error, a body that is not JSON)
StaticFails ==
    /\ pc = "resolve" /\ tier = "static"
    /\ UNCHANGED nonMain
    /\ requests' = Append(requests, Request)
    /\ \E how \in {"404", "http", "error"} :
         lastOutcome' = how /\ AfterStaticFailure(how)
    /\ UNCHANGED <<event_idx, eids, cur, header, payload, matches, fetched, blocks, built,
                   created, sendOutcome>>

\* lines 174-184: a live request fails: an HTTP status or any other exception
LiveFails ==
    /\ pc = "resolve" /\ tier = "live"
    /\ UNCHANGED nonMain
    /\ requests' = Append(requests, Request)
    /\ \E how \in {"http", "error"} :
         lastOutcome' = how /\ AfterLiveFailure(how)
    /\ UNCHANGED <<event_idx, eids, cur, header, payload, matches, fetched, blocks, built,
                   created, sendOutcome>>

\* a lenient main: a payload that cannot be parsed counts as no matches and
\* the report goes on
Parse_Lenient ==
    /\ pc = "parse"
    /\ UNCHANGED nonMain
    /\ \E r \in {parse_matches(payload)} :
           matches' = r.out /\ pc' = "format" /\ exit' = exit
    /\ UNCHANGED <<event_idx, eids, cur, header, tier, take, requests, lastOutcome,
                   resolved, payload, fetched, blocks, built, created, sendOutcome>>

\* line 277 (and 357-359): the payload is parsed, or parsing it raises
Parse ==
    /\ pc = "parse"
    /\ UNCHANGED nonMain
    /\ \E r \in {parse_matches(payload)} :
           IF r.raised
           THEN Stop(SysExit(4)) /\ matches' = matches
           ELSE matches' = r.out /\ pc' = "format" /\ exit' = exit
    /\ UNCHANGED <<event_idx, eids, cur, header, tier, take, requests, lastOutcome, resolved,
                   payload, fetched, blocks, built, created, sendOutcome>>

\* lines 279-326 and 356-360: the block of the event is built and appended,
\* or building it raises
Format ==
    /\ pc = "format"
    /\ UNCHANGED nonMain
    /\ \E b \in {BlockOf(header, matches)} :
           IF b.raised
           THEN /\ Stop(SysExit(4))
                /\ UNCHANGED <<blocks, built, cur>>
           ELSE /\ blocks' = blocks \o <<b.text, Divider>>
                /\ built' = Append(built, eids[cur])
                /\ exit' = exit
                /\ IF cur < Len(eids) THEN cur' = cur + 1 /\ pc' = "header"
                   ELSE cur' = cur /\ pc' = "send"
    /\ UNCHANGED <<event_idx, eids, header, tier, take, requests, lastOutcome, resolved, payload,
                   matches, fetched, created, sendOutcome>>

\* lines 72-75: send_whatsapp raises before anything is sent (the numbers
\* or the credentials are not set)
SendRefused ==
    /\ pc = "send"
    /\ UNCHANGED nonMain
    /\ \E why \in {"no_numbers", "no_creds"} : sendOutcome' = why
    /\ Stop(Uncaught)
    /\ UNCHANGED <<event_idx, eids, cur, header, tier, take, requests, lastOutcome, resolved,
                   payload, matches, fetched, blocks, built, created>>

\* lines 76-84 and 365-367: the message is handed to Twilio, which accepts
\* it or answers 429; main returns
Send ==
    /\ pc = "send"
    /\ UNCHANGED nonMain
    /\ created' = Append(created, MessageOf(blocks))
    /\ \E how \in {"sent", "rate_limited"} : sendOutcome' = how
    /\ Stop(Returned)
    /\ UNCHANGED <<event_idx, eids, cur, header, tier, take, requests, lastOutcome, resolved,
                   payload, matches, fetched, blocks, built>>

\* lines 83-84: Twilio answers with another error, which is raised again
SendFails ==
    /\ pc = "send"
    /\ UNCHANGED nonMain
    /\ created' = Append(created, MessageOf(blocks))
    /\ sendOutcome' = "twilio_error"
    /\ Stop(Uncaught)
    /\ UNCHANGED <<event_idx, eids, cur, header, tier, take, requests, lastOutcome, resolved,
                   payload, matches, fetched, blocks, built>>

Next ==
    \/ LoadOk \/ LoadFails \/ Discover \/ DiscoverFails \/ BeginBlock
    \/ FetchOk \/ StaticFails \/ LiveFails \/ Parse \/ Format
    \/ SendRefused \/ Send \/ SendFails

Spec == Init /\ [][Next]_vars

(***************************************************************************)
(* Claims about the resolver and main.                                     *)
(***************************************************************************)
FailureKinds == {"404", "http", "error"}

\* the one order get_payload_static_or_live may ask in: every page size of
\* the static snapshot, then every page size of the live API
ResolverOrder(eid) ==
    [i \in 1..(2 * Len(TAKE_TRY)) |->
       [eid  |-> eid,
        tier |-> IF i <= Len(TAKE_TRY) THEN "static" ELSE "live",
        take |-> TAKE_TRY[((i - 1) % Len(TAKE_TRY)) + 1]]]

IsPrefix(s, full) == Len(s) <= Len(full) /\ s = SubSeq(full, 1, Len(s))

\* C1: the requests of a call of get_payload_static_or_live are a prefix of
\* the fixed order (static 200,100,50,20,10, then live 200,100,50,20,10), so
\* a live request comes only after all five static ones and at most ten are
\* made; the resolver keeps asking only while no request has succeeded, it
\* returns the payload of the request that succeeded, and once one has
\* succeeded it issues no further request in that call.
C1_FixedOrderFirstSuccess ==
    /\ [](fetched # <<>> =>
            /\ IsPrefix(requests, ResolverOrder(fetched[Len(fetched)]))
            /\ pc = "resolve" => lastOutcome # "ok" /\ Len(requests) < 2 * Len(TAKE_TRY)
            /\ resolved = "payload" =>
                 /\ lastOutcome = "ok"
                 /\ requests # <<>>
                 /\ payload \in MainPayloads)
    /\ [][resolved = "payload" => (requests' = requests \/ requests' = <<>>)]_vars

\* C1 witness: the resolver has returned the payload of its seventh request,
\* the second live one
C1_Witness ==
    /\ pc = "parse" /\ resolved = "payload"
    /\ Len(requests) = 7
    /\ requests[7] = [eid |-> eids[cur], tier |-> "live", take |-> 100]

\* C2: a failed request is never fatal by itself: whatever its kind, the
\* resolver goes on to the next request of the fixed order, unless it was the
\* tenth; and the resolver raises "no payload" exactly when all ten requests
\* were made and the last one failed too (it had gone on only past failures).
C2_FailuresSkipped ==
    /\ [](fetched # <<>> =>
            (resolved = "no_payload" <=>
               /\ Len(requests) = 2 * Len(TAKE_TRY)
               /\ lastOutcome \in FailureKinds))
    /\ [][(pc = "resolve" /\ lastOutcome' \in FailureKinds /\ requests' # requests) =>
            IF Len(requests') < 2 * Len(TAKE_TRY)
            THEN /\ pc' = "resolve" /\ exit' = Running /\ resolved' = "pending"
                 /\ [eid |-> eids'[cur'], tier |-> tier', take |-> TAKE_TRY[take']]
                      = ResolverOrder(eids[cur])[Len(requests') + 1]
            ELSE resolved' = "no_payload" /\ exit' = SysExit(4)]_vars

\* C2 witness: a static request failed with an HTTP status other than 404
\* and the resolver is about to issue the next one
C2_Witness ==
    /\ pc = "resolve" /\ tier = "static" /\ take = 3
    /\ lastOutcome = "http" /\ Len(requests) = 2

\* the process ended through sys.exit or by returning from main
OwnExit == pc = "done" /\ exit.kind \in {"sys.exit", "return"}

AllPresent == \A i \in 1..Len(eids) : eids[i] \in DOMAIN event_idx

\* C8: a run that ends through main's own exit paths ends with code 0, 2, 3
\* or 4: 2 exactly when the mapping could not be loaded, 3 exactly when a
\* discovered id is missing from it, 4 exactly when all ids are present and
\* some event's block was not built, 0 exactly when there were no ids or the
\* report was handed to the notifier (sent or rate-limited).
C8_ExitCodes ==
    OwnExit =>
      /\ exit.code \in {0, 2, 3, 4}
      /\ exit.code = 2 <=> event_idx = NotLoaded
      /\ exit.code = 3 <=> event_idx # NotLoaded /\ ~AllPresent
      /\ exit.code = 4 <=>
           /\ event_idx # NotLoaded /\ AllPresent /\ eids # <<>>
           /\ Len(built) < Len(eids)
      /\ exit.code = 0 <=>
           \/ event_idx # NotLoaded /\ eids = <<>>
           \/ /\ built = eids /\ eids # <<>> /\ Len(created) = 1
              /\ sendOutcome \in {"sent", "rate_limited"}

\* C8 witness: the run ended with code 4 on its second event
C8_Witness == OwnExit /\ exit.code = 4 /\ Len(built) = 1 /\ cur = 2

\* C10: at most one message is created, and only when the block of every
\* discovered event was built, in discovery order, its body the assembled
\* report; events are taken one at a time (the blocks built and the payloads
\* fetched are prefixes of the discovered ids, and no payload is fetched
\* before the block of the previous event is built; formatting starts only on
\* a payload that parsed); and a run that ends with code 2, 3 or 4 has
\* created no message and fetched nothing for the events after the failing one.
C10_SendOnceAfterAllBlocks ==
    /\ Len(created) <= 1
    /\ created # <<>> =>
         /\ built = eids /\ eids # <<>>
         /\ Len(blocks) = 2 * Len(eids)
         /\ created[1] = MessageOf(blocks)
    /\ IsPrefix(built, eids) /\ IsPrefix(fetched, eids)
    /\ Len(blocks) = 2 * Len(built)
    /\ Len(built) <= Len(fetched) /\ Len(fetched) <= Len(built) + 1
    /\ pc = "format" => ~parse_matches(payload).raised
    /\ pc = "send" => built = eids
    /\ (pc = "done" /\ exit.code \in {2, 3, 4}) =>
         /\ created = <<>>
         /\ exit.code \in {2, 3} => fetched = <<>>
         /\ exit.code = 4 => Len(built) < Len(eids)

\* C10 witness: the report of two events, the last one with parsed matches,
\* was handed to Twilio
C10_Witness == Len(created) = 1 /\ Len(eids) = 2 /\ built = eids /\ matches # <<>>

(***************************************************************************)
(* build_india_block on its own: parse_matches, then the block, applied to *)
(* payloads drawn from every combination of sides, names, nations and      *)
(* scores of one match, and from short lists of well- and ill-formed       *)
(* entries.                                                                *)
(***************************************************************************)
\* the most entries of a list payload
MaxEntries == 2

SideNames   == {<<>>, <<"A">>, <<"B">>}
SideNations == {<<"I", "N", "D">>, <<"F", "R", "A">>, <<"I", "N", "D", "/", "S", "G", "P">>,
                <<"I", "N", "D", "O">>}
Overalls    == {Str(<<"3", "-", "1">>), Str(<<"1", "-", "3">>), Str(<<"2", "-", "2">>),
                Str(<<" ", "3", ":", "1">>), Str(<<"x">>), Absent}
GamesScores == {Str(<<"1", "1", "-", "9", ",", "8", "-", "1", "1">>), Absent, Num(<<"7">>)}

\* the competitor lists of one match: each side absent or present
SideLists ==
    LET hs == {<<>>} \cup {<<SideH(n, o)>> : n \in SideNames, o \in SideNations}
        as == {<<>>} \cup {<<SideA(n, o)>> : n \in SideNames, o \in SideNations}
    IN  {h \o a : h \in hs, a \in as}

\* the payloads of one well-formed match
SingleMatchPayloads ==
    {ListOf(<<Entry("obj", CardWith(cs, ov, gs), Absent)>>) :
        cs \in SideLists, ov \in Overalls, gs \in GamesScores}

IND == <<"I", "N", "D">>
FRA == <<"F", "R", "A">>
\* entries of list payloads: matches with and without IND, and the ways an
\* entry can be malformed
GoodEntry(hn, ho, an, ao, ov) ==
    Entry("obj", CardWith(<<SideH(hn, ho), SideA(an, ao)>>, Str(ov), Absent), Absent)
ListEntries ==
    {GoodEntry(<<"A">>, IND, <<"B">>, FRA, <<"3", "-", "1">>),
     GoodEntry(<<"C">>, FRA, <<"D">>, <<" ", "i", "n", "d", "-", "S", "G", "P">>, <<"0", "-", "3">>),
     GoodEntry(<<"E">>, <<"I", "N", "D", "O">>, <<"F">>, FRA, <<"3", "-", "2">>),
     \* not an object
     Entry("str", EmptyCard, Absent),
     \* a match card that is not an object
     Entry("obj", [EmptyCard EXCEPT !.k = "str", !.s = <<"x">>], Absent),
     \* a competitor that is not an object
     Entry("obj", CardWith(<<Competitor("null", Absent, Absent, Absent)>>,
                           Str(<<"3", "-", "1">>), Absent), Absent),
     \* a score that is not a string
     Entry("obj", CardWith(<<SideH(<<"A">>, IND)>>, Num(<<"3">>), Absent), Absent)}

ListPayloads ==
    {Payload(k, IF k = "obj" THEN "list" ELSE "absent", items) :
        k \in {"list", "obj"}, items \in SeqsUpTo(ListEntries, MaxEntries)}

\* payloads that are neither a list nor an object, and objects without a
\* "matches" list
OtherPayloads ==
    {Payload("null", "absent", <<>>), Payload("str", "absent", <<>>),
     Payload("num", "absent", <<>>), Payload("obj", "absent", <<>>),
     Payload("obj", "null", <<>>)}

BlockPayloads == SingleMatchPayloads \cup ListPayloads \cup OtherPayloads

\* the header the blocks of this development carry
BlockHeader == build_header_strict(<<"1", "0", "1">>, [e \in KnownEids |-> GoodRow]).text

BlockInit ==
    /\ b_pc = "input" /\ b_in \in BlockPayloads /\ b_parsed = <<>> /\ b_block = <<>>
    /\ MainIdle /\ FlipIdle /\ RoundIdle

\* line 277: matches = parse_matches(payload)
DoParse ==
    /\ b_pc = "input"
    /\ b_parsed' = parse_matches(b_in)
    /\ b_pc' = "parsed"
    /\ UNCHANGED <<b_in, b_block, mainVars, flipVars, roundVars>>

\* lines 279-326: the block, once the payload is parsed
DoFormat ==
    /\ b_pc = "parsed" /\ ~b_parsed.raised
    /\ b_block' = BlockOf(BlockHeader, b_parsed.out)
    /\ b_pc' = "built"
    /\ UNCHANGED <<b_in, b_parsed, mainVars, flipVars, roundVars>>

BlockNext == DoParse \/ DoFormat

SpecBlock == BlockInit /\ [][BlockNext]_vars

(***************************************************************************)
(* Claims about parse_matches and build_india_block.                       *)
(***************************************************************************)
Built == b_pc = "built" /\ ~b_block.raised

\* the side the overall score makes the winner: "home", "away" or "none"
ScoreWinner(m) ==
    LET sm == ScoreMatch(m.Match_Score)
    IN  IF ~sm.ok THEN "none"
        ELSE IF IntOf(sm.g1) > IntOf(sm.g2) THEN "home"
        ELSE IF IntOf(sm.g2) > IntOf(sm.g1) THEN "away"
        ELSE "none"

\* shown is stored with the two numbers of the score swapped; a stored score
\* that is not numeric is shown as it is
IsSwapped(stored, shown) ==
    IF ScoreMatch(stored).ok
    THEN /\ ScoreMatch(shown).ok
         /\ ScoreMatch(shown).g1 = ScoreMatch(stored).g2
         /\ ScoreMatch(shown).g2 = ScoreMatch(stored).g1
    ELSE shown = stored

\* the same for every per-game score of a comma-joined list
AreSwapped(stored, shown) ==
    /\ Len(GameParts(stored)) = Len(GameParts(shown))
    /\ \A i \in 1..Len(GameParts(stored)) :
         IsSwapped(GameParts(stored)[i], GameParts(shown)[i])

\* C3: every match of the block shows its scores from the side of the IND
\* participant whatever the outcome: unmodified when that participant is the
\* home side, every pair swapped when it is the away side.
C3_ScoresFollowSide ==
    Built =>
      \A i \in 1..Len(b_block.rows) :
        LET m == b_block.india[i]
            r == b_block.rows[i]
        IN  IF r.home
            THEN r.overall = m.Match_Score /\ r.games = PyStr(m.Games_Score)
            ELSE /\ IsSwapped(m.Match_Score, r.overall)
                 /\ m.Games_Score.k = "str" => AreSwapped(m.Games_Score.s, r.games)

\* C4: the verb of every match of the block is "defeated" exactly when the
\* IND participant's side is the winner by the overall score, "lost to"
\* exactly when the other side is, and "vs" exactly when the score makes
\* nobody the winner.
C4_VerbFollowsOutcome ==
    Built =>
      \A i \in 1..Len(b_block.rows) :
        LET m    == b_block.india[i]
            r    == b_block.rows[i]
            mine == IF r.home THEN "home" ELSE "away"
            w    == ScoreWinner(m)
        IN  /\ r.verb = "defeated" <=> w = mine
            /\ r.verb = "lost to" <=> w \notin {mine, "none"}
            /\ r.verb = "vs" <=> w = "none"

\* C7: parse_matches never raises: a list payload, or an object payload with
\* a "matches" list, gives one record per entry whatever the entries are, and
\* a payload that is neither a list nor an object gives no record.
C7_ParseNeverRaises ==
    (b_pc # "input" /\ (b_in.k # "obj" \/ b_in.mk = "list")) =>
      /\ ~b_parsed.raised
      /\ Len(b_parsed.out) = IF b_in.k \in {"list", "obj"} THEN Len(b_in.items) ELSE 0

\* IND stands in the nation field as a whole token: between two delimiters
\* (slash, whitespace, comma, hyphen) or the ends of the field, in any case
HasIndToken(org) ==
    \E i \in 1..Len(org) :
        /\ LitAt(Upper(org), i, <<"I", "N", "D">>)
        /\ i = 1 \/ org[i - 1] \in NationDelims
        /\ i + 2 = Len(org) \/ org[i + 3] \in NationDelims

Qualifies(m) == HasIndToken(m.Comp1_Nation) \/ HasIndToken(m.Comp2_Nation)

\* the lines of a block of rows: the header, then for each match its two
\* lines, a blank line between matches
ExpectedLines(rows) ==
    <<BlockHeader>> \o
    [i \in 1..(3 * Len(rows) - 1) |->
       CASE i % 3 = 1 -> rows[(i + 2) \div 3].line2
         [] i % 3 = 2 -> rows[(i + 1) \div 3].line3
         [] OTHER     -> <<>>]

\* C9: the block holds exactly the matches whose home or away nation field
\* has IND as a whole token, in payload order, one row each; with no such
\* match the block is the header and the "(No Indian matches found)" line.
C9_NationFilter ==
    Built =>
      /\ b_block.india = SelectSeq(b_parsed.out, Qualifies)
      /\ Len(b_block.rows) = Len(b_block.india)
      /\ IF b_block.india = <<>>
         THEN b_block.text = BlockHeader \o <<"\n">> \o NoMatchesNotice
         ELSE SplitChar(b_block.text, "\n") = ExpectedLines(b_block.rows)

\* C9 witness: of two matches, the one with "IND/SGP" was kept and the one
\* with "INDO" was not
C9_Witness ==
    /\ Built
    /\ Len(b_parsed.out) = 2 /\ Len(b_block.india) = 1
    /\ \E i \in 1..2 : b_parsed.out[i].Comp1_Nation = <<"I", "N", "D", "O">>
    /\ b_block.india[1].Comp2_Nation = <<"i", "n", "d", "-", "S", "G", "P">>

(***************************************************************************)
(* The score flips on their own: a score string, flipped again and again.  *)
(***************************************************************************)
MaxScoreLen == 4
MaxFlips == 2
FlipAlphabet == {"3", "1", "-", ":", " ", ",", "x"}
ScoreInputs == SeqsUpTo(FlipAlphabet, MaxScoreLen)

\* the string the next flip is applied to
FlipArg == IF f_out = <<>> THEN f_in ELSE f_out[Len(f_out)].s

FlipInit ==
    /\ f_in \in ScoreInputs /\ f_out = <<>>
    /\ MainIdle /\ BlockIdle /\ RoundIdle

\* line 317: flip_overall(m["Match_Score"]), applied to its own result too
FlipOverall ==
    /\ Len(f_out) < MaxFlips
    /\ IF f_out = <<>> THEN TRUE ELSE f_out[1].fn = "overall"
    /\ f_out' = Append(f_out, [fn |-> "overall", s |-> flip_overall(FlipArg)])
    /\ UNCHANGED <<f_in, mainVars, blockVars, roundVars>>

\* line 317: flip_games(m["Games_Score"]), applied to its own result too
FlipGames ==
    /\ Len(f_out) < MaxFlips
    /\ IF f_out = <<>> THEN TRUE ELSE f_out[1].fn = "games"
    /\ f_out' = Append(f_out, [fn |-> "games", s |-> flip_games(FlipArg)])
    /\ UNCHANGED <<f_in, mainVars, blockVars, roundVars>>

FlipNext == FlipOverall \/ FlipGames

SpecFlip == FlipInit /\ [][FlipNext]_vars

Flipped(fn, n) == Len(f_out) >= n /\ f_out[1].fn = fn

\* the two numbers of an eligible token, written A-B or, swapped, B-A
Dashed(m) == m.g1 \o <<"-">> \o m.g2
DashedBack(m) == m.g2 \o <<"-">> \o m.g1

\* a comma-joined list is flip-eligible when it has a token and every token
\* is a numeric pair; malformed when no token is
GamesEligible(gs) ==
    /\ GameParts(gs) # <<>>
    /\ \A i \in 1..Len(GameParts(gs)) : TokenMatch(GameParts(gs)[i]).ok
GamesMalformed(gs) ==
    \A i \in 1..Len(GameParts(gs)) : ~TokenMatch(GameParts(gs)[i]).ok

\* C5 as the spec states it: flipping a flip-eligible score twice gives the
\* original string back, and flipping a malformed score gives the input back.
C5_FlipInvolutive ==
    /\ (Flipped("overall", 2) /\ ScoreMatch(f_in).ok) => f_out[2].s = f_in
    /\ (Flipped("games", 2) /\ GamesEligible(f_in)) => f_out[2].s = f_in
    /\ (Flipped("overall", 1) /\ ~ScoreMatch(f_in).ok) => f_out[1].s = f_in
    /\ (Flipped("games", 1) /\ GamesMalformed(f_in)) => f_out[1].s = f_in

\* C5 amended: a flip swaps the two numbers of an eligible score and writes
\* them as B-A, with a hyphen and no whitespace, so a second flip gives the
\* original numbers as A-B and not always the original string; a malformed
\* overall score comes back unchanged; in a per-game list every token is
\* trimmed, empty tokens are dropped, and a malformed token is kept trimmed.
C5_FlipCanonical ==
    /\ Flipped("overall", 1) =>
         f_out[1].s = IF ScoreMatch(f_in).ok THEN DashedBack(ScoreMatch(f_in)) ELSE f_in
    /\ Flipped("overall", 2) =>
         f_out[2].s = IF ScoreMatch(f_in).ok THEN Dashed(ScoreMatch(f_in)) ELSE f_in
    /\ Flipped("games", 1) =>
         f_out[1].s = Join([i \in 1..Len(GameParts(f_in)) |->
                              IF TokenMatch(GameParts(f_in)[i]).ok
                              THEN DashedBack(TokenMatch(GameParts(f_in)[i]))
                              ELSE GameParts(f_in)[i]], <<",">>)
    /\ Flipped("games", 2) =>
         f_out[2].s = Join([i \in 1..Len(GameParts(f_in)) |->
                              IF TokenMatch(GameParts(f_in)[i]).ok
                              THEN Dashed(TokenMatch(GameParts(f_in)[i]))
                              ELSE GameParts(f_in)[i]], <<",">>)

\* C5 witness: "3:1" flipped to "1-3" and again to "3-1"
C5_Witness ==
    /\ f_in = <<"3", ":", "1">>
    /\ Flipped("overall", 2)
    /\ f_out[1].s = <<"1", "-", "3">>
    /\ f_out[2].s = <<"3", "-", "1">>

(***************************************************************************)
(* The round parser on its own: a description, classified.                 *)
(***************************************************************************)
MaxChunks == 3
RoundVocabulary ==
    {<<"R", "o", "u", "n", "d", " ", "o", "f", " ", "1", "6">>,
     <<"R", "o", "u", "n", "d", " ", "o", "f", " ", "3", "2">>,
     <<"Q", "u", "a", "r", "t", "e", "r", "f", "i", "n", "a", "l">>,
     <<"s", "e", "m", "i", "-", "F", "i", "n", "a", "l", "s">>,
     <<"F", "i", "n", "a", "l">>,
     <<"S", "F">>, <<"q", "f">>, <<"F">>,
     <<"R", "1", "6">>, <<"r", " ", "8">>,
     <<" ">>, <<"s">>, <<"x">>}

RECURSIVE Concat(_)
Concat(chunks) ==
    IF chunks = <<>> THEN <<>> ELSE Head(chunks) \o Concat(Tail(chunks))

Descriptions == {Concat(cs) : cs \in SeqsUpTo(RoundVocabulary, MaxChunks)}

RoundInit ==
    /\ r_desc \in Descriptions /\ r_out = <<>>
    /\ MainIdle /\ BlockIdle /\ FlipIdle

\* line 225: round_name = pretty_round(desc)
Classify ==
    /\ r_out = <<>>
    /\ r_out' = <<pretty_round(r_desc)>>
    /\ UNCHANGED <<r_desc, mainVars, blockVars, flipVars>>

RoundNext == Classify

SpecRound == RoundInit /\ [][RoundNext]_vars

IsRN(label) ==
    /\ Len(label) >= 2 /\ label[1] = "R"
    /\ \A i \in 2..Len(label) : label[i] \in Digits

\* the rules in the order the claim gives them, on the trimmed description:
\* which rule is the first to match (7 when none does), and its label
FirstRule(desc) ==
    LET t == Strip(desc)
    IN  CASE HasSemi(Lower(t))                     -> 1
          [] HasQuarter(Lower(t))                  -> 2
          [] HasFinal(Lower(t))                    -> 3
          [] RoundOfGroup(Lower(t)) # <<>> -> 4
          [] RTokenGroup(Lower(t)) # <<>>  -> 5
          [] BareGroup(Upper(t)) # <<>>    -> 6
          [] OTHER                                 -> 7

LongLabel(desc) ==
    LET t == Strip(desc)
        r == FirstRule(desc)
    IN  CASE r = 1 -> Semifinal
          [] r = 2 -> Quarterfinal
          [] r = 3 -> Final
          [] r = 4 -> <<"R">> \o RoundOfGroup(Lower(t))
          [] r = 5 -> <<"R">> \o RTokenGroup(Lower(t))
          [] r = 6 -> ROUND_LABELS(BareGroup(Upper(t)))
          [] OTHER -> NoRound

ShortLabel(desc) ==
    LET t == Strip(desc)
        r == FirstRule(desc)
    IN  CASE r = 1 -> <<"S", "F">>
          [] r = 2 -> <<"Q", "F">>
          [] r = 3 -> <<"F">>
          [] r = 4 -> <<"R">> \o RoundOfGroup(Lower(t))
          [] r = 5 -> <<"R">> \o RTokenGroup(Lower(t))
          [] r = 6 -> BareGroup(Upper(t))
          [] OTHER -> NoRound

RoundOf16Quarterfinal ==
    <<"R", "o", "u", "n", "d", " ", "o", "f", " ", "1", "6", " ",
      "Q", "u", "a", "r", "t", "e", "r", "f", "i", "n", "a", "l">>
RoundOf32 == <<"R", "o", "u", "n", "d", " ", "o", "f", " ", "3", "2">>

\* C6 as the spec states it: the first rule to match in the order semi-final,
\* quarter-final, final, round of N, R<N>, bare QF/SF/F decides, and the
\* result is one of the short labels SF, QF, F, R<N> or the empty string;
\* "Round of 16 Quarterfinal" gives QF, "Round of 32" R32, "SF" SF.
C6_ShortLabels ==
    r_out # <<>> =>
      /\ r_out[1] = ShortLabel(r_desc)
      /\ r_out[1] \in {<<"S", "F">>, <<"Q", "F">>, <<"F">>, NoRound} \/ IsRN(r_out[1])
      /\ r_desc = RoundOf16Quarterfinal => r_out[1] = <<"Q", "F">>
      /\ r_desc = RoundOf32 => r_out[1] = <<"R", "3", "2">>
      /\ r_desc = <<"S", "F">> => r_out[1] = <<"S", "F">>

\* C6 amended: the first rule to match in the order semi-final,
\* quarter-final, final, round of N, R<N>, bare QF/SF/F decides, in any
\* letter case, and the result is one of the labels Semifinal, Quarterfinal,
\* Final, R<N> or the empty string; "Round of 16 Quarterfinal" gives
\* Quarterfinal, "Round of 32" R32, "SF" Semifinal.
C6_LongLabels ==
    r_out # <<>> =>
      /\ r_out[1] = LongLabel(r_desc)
      /\ r_out[1] \in {Semifinal, Quarterfinal, Final, NoRound} \/ IsRN(r_out[1])
      /\ r_desc = RoundOf16Quarterfinal => r_out[1] = Quarterfinal
      /\ r_desc = RoundOf32 => r_out[1] = <<"R", "3", "2">>
      /\ r_desc = <<"S", "F">> => r_out[1] = Semifinal

\* C6 witness: "Round of 16 Quarterfinal" classified as Quarterfinal
C6_Witness == r_desc = RoundOf16Quarterfinal /\ r_out = <<Quarterfinal>>

=============================================================================
